---- MODULE Spec2Model ----
(***************************************************************************)
(* Model of the gateway watchdog supervisor, startGatewayWatchdog in       *)
(* src/infra/gateway-watchdog.ts.  One action per event-loop callback:     *)
(* the call of startGatewayWatchdog, the child's 'exit' and 'error'        *)
(* events, the SIGTERM / SIGINT listeners and the restart timer.  Time is  *)
(* the value Date.now() returns, in milliseconds since the call.           *)
(***************************************************************************)
EXTENDS Integers, Sequences, FiniteSets, TLC

\* ---- program constants (gateway-watchdog.ts:10-14) ----
MAX_RESTARTS_PER_HOUR == 5
STABLE_UPTIME_RESET_MS == 300000
MAX_BACKOFF_MS == 60000
INITIAL_BACKOFF_MS == 1000
RESTART_WINDOW_MS == 3600000

\* ---- bounds of the model ----
MaxSpawns == 3
MaxSignals == 2
\* bounds of the runs with faults
MaxFaultSpawns == 2
MaxFaultSignals == 1
MaxWriteFailures == 1
MaxSpawnFailures == 1
\* bound of the runs that follow the backoff sequence
MaxBackoffSpawns == 9

\* absent values: null pid, null lastCrashAt, null exit code, no timer
Null == -1
NoSignal == "none"
NoFile == [status |-> "absent"]
NoChild == [id |-> 0, pid |-> Null, killed |-> FALSE, exited |-> TRUE, errored |-> FALSE]

\* the last event handled: its kind and, for a child exit, its code and signal
Event(type) == [type |-> type, code |-> Null, signal |-> NoSignal]
ExitEvent(x) == [type |-> "exit", code |-> x.code, signal |-> x.signal]

\* bound of the runs of a child that crashes at once every time
MaxLoopSpawns == 70

\* longest argv the argument filter is given
MaxArgvLen == 3

\* children spawned in a run under the default configuration
MaxDefaultSpawns == 7

\* options the caller may pass (opts.maxRestartsPerHour, opts.stableUptimeMs)
MaxRestartsChoices == {0, 1, 2, MAX_RESTARTS_PER_HOUR}
StableUptimeChoices == {STABLE_UPTIME_RESET_MS, STABLE_UPTIME_RESET_MS + 1}

\* the (code, signal) pairs a child 'exit' event carries
ExitInputs ==
  { [code |-> 0, signal |-> NoSignal],
    [code |-> 1, signal |-> NoSignal],
    [code |-> Null, signal |-> "SIGKILL"] }

Signals == {"SIGTERM", "SIGINT"}

\* time a child may run before its exit, besides none
UptimeSteps == {STABLE_UPTIME_RESET_MS}
\* time a restart timer may be late by, besides firing when due
DelaySteps == {RESTART_WINDOW_MS, RESTART_WINDOW_MS + 1}

WATCHDOG_FLAG == "--watchdog"
WATCHDOG_CHILD_ENV == "OPENCLAW_WATCHDOG_CHILD"

\* the arguments an argv is made of: the flag, two arguments that contain it
\* without being equal to it, and another argument
ArgTokens == {WATCHDOG_FLAG, "--watchdog=1", "watchdog", "gateway"}

\* every sequence over S of length n or less
RECURSIVE SeqsUpTo(_, _)
SeqsUpTo(S, n) ==
  IF n = 0 THEN {<< >>}
  ELSE LET shorter == SeqsUpTo(S, n - 1)
       IN shorter \cup {Append(a, x) : a \in shorter, x \in S}

ArgvChoices == SeqsUpTo(ArgTokens, MaxArgvLen)
ExecArgvChoices == {<< >>, << "--import", WATCHDOG_FLAG >>}

\* an environment: a value or Unset for each variable name
Unset == "unset"
EnvNames == {"PATH", WATCHDOG_CHILD_ENV}
EnvChoices == [EnvNames -> {Unset, "1", "0"}]
NoEnv == [n \in EnvNames |-> Unset]

\* the options of the runs that do not look at arguments or environment
DefaultArgv == << "gateway", WATCHDOG_FLAG >>
DefaultEnv == [n \in EnvNames |-> IF n = "PATH" THEN "1" ELSE Unset]

\* what readWatchdogState gives when it has not been called / returns null
NotRead == [status |-> "unread"]
NullState == [status |-> "null"]

\* a state file whose content is cut short (an interrupted write)
CorruptFile == [status |-> "corrupt"]

\* the decimal digits of a number and the number of a digit sequence
RECURSIVE Digits(_)
Digits(n) == IF n < 10 THEN << n >> ELSE Append(Digits(n \div 10), n % 10)

RECURSIVE NumberOf(_)
NumberOf(ds) ==
  IF ds = << >> THEN 0
  ELSE 10 * NumberOf(SubSeq(ds, 1, Len(ds) - 1)) + ds[Len(ds)]

\* JSON values as written: null, a number by its digits, a string.  The
\* ISO-8601 strings of lastCrashAt and startedAt stand for a time and are
\* written as that time's digits between the quotes.
JsonNull == [tok |-> "null", digits |-> << >>, text |-> ""]
JsonNumber(n) == [tok |-> "num", digits |-> Digits(n), text |-> ""]
JsonTime(t) == [tok |-> "str", digits |-> Digits(t), text |-> ""]
JsonString(str) == [tok |-> "str", digits |-> << >>, text |-> str]
OrNull(v, json) == IF v = Null THEN JsonNull ELSE json

\* variant: a member whose value is null is left out
JsonStringifyDropsNull(st) ==
  [closed |-> TRUE,
   members |-> SelectSeq(
     << [key |-> "pid", value |-> JsonNumber(st.pid)],
        [key |-> "childPid", value |-> OrNull(st.childPid, JsonNumber(st.childPid))],
        [key |-> "restarts", value |-> JsonNumber(st.restarts)],
        [key |-> "lastCrashAt", value |-> OrNull(st.lastCrashAt, JsonTime(st.lastCrashAt))],
        [key |-> "startedAt", value |-> JsonTime(st.startedAt)],
        [key |-> "status", value |-> JsonString(st.status)] >>,
     LAMBDA m : m.value.tok # "null")]

\* JSON.stringify(state, null, 2) + "\n" of writeWatchdogState
JsonStringify(st) ==
  [closed |-> TRUE,
   members |->
     << [key |-> "pid", value |-> JsonNumber(st.pid)],
        [key |-> "childPid", value |-> OrNull(st.childPid, JsonNumber(st.childPid))],
        [key |-> "restarts", value |-> JsonNumber(st.restarts)],
        [key |-> "lastCrashAt", value |-> OrNull(st.lastCrashAt, JsonTime(st.lastCrashAt))],
        [key |-> "startedAt", value |-> JsonTime(st.startedAt)],
        [key |-> "status", value |-> JsonString(st.status)] >>]

\* the text in the file: what the last successful write put there, or the
\* opening of an object and nothing else
FileText(f) ==
  IF f = CorruptFile THEN [closed |-> FALSE, members |-> << >>]
  ELSE JsonStringify(f)

JsonValue(v) ==
  IF v.tok = "null" THEN Null
  ELSE IF v.text # "" THEN v.text
  ELSE NumberOf(v.digits)

\* JSON.parse: SyntaxError on a text that does not end its object
SyntaxError == [status |-> "SyntaxError"]
JsonParse(text) ==
  IF ~text.closed THEN SyntaxError
  ELSE [k \in {text.members[i].key : i \in DOMAIN text.members} |->
          JsonValue((CHOOSE m \in {text.members[i] : i \in DOMAIN text.members} :
                       m.key = k).value)]

\* readWatchdogState: readFileSync throws when there is no file, JSON.parse
\* when the text is no JSON; both are caught
readWatchdogState(f) ==
  IF f = NoFile THEN NullState
  ELSE LET v == JsonParse(FileText(f))
       IN IF v = SyntaxError THEN NullState ELSE v

VARIABLES
  pc,                \* "idle" | "skipped" | "alive" | "pending" | "done"
  supervised,        \* isLikelySupervisedProcess(env)
  maxRestarts,       \* opts.maxRestartsPerHour ?? MAX_RESTARTS_PER_HOUR
  stableUptime,      \* opts.stableUptimeMs ?? STABLE_UPTIME_RESET_MS
  now,               \* Date.now()
  restartTimestamps, \* number[]
  backoffMs,
  child,             \* the ChildProcess handle held in `child`, or NoChild
  childStartedAt,
  shuttingDown,
  state,             \* WatchdogState (in memory)
  file,              \* content of <state-dir>/watchdog.json, or NoFile
  writeFailures,     \* calls of writeWatchdogState that failed
  spawnFailures,     \* calls of spawn() that returned a handle without pid
  listeners,         \* SIGTERM / SIGINT listeners registered on process
  timerDue,          \* time the pending restart timer may fire at, or Null
  timerDelay,        \* delay given to the last setTimeout, or Null
  streak,            \* crashes handled since the backoff was last reset
  spawnCount,        \* calls of spawn()
  killLog,           \* calls of child.kill: <<[id, sig, live]>>
  sigCount,          \* signals delivered to the supervisor
  exitHookCalls,     \* calls of opts.onChildExit
  lastHook,          \* arguments of the last call of opts.onChildExit
  giveUpCalls,       \* calls of opts.onGiveUp
  cleanupCalls,      \* calls of cleanup()
  resolveCalls,      \* calls of resolve()
  ev,                \* the last event handled
  argv,              \* opts.argv ?? process.argv.slice(1)
  execArgv,          \* opts.execArgv ?? process.execArgv
  env,               \* opts.env ?? process.env
  spawnArgs,         \* args given to the last call of spawn()
  spawnEnv,          \* options.env given to the last call of spawn()
  restartLog,        \* the time of every restart scheduled so far
  readResult         \* result of the last readWatchdogState of an observer

vars == << pc, supervised, maxRestarts, stableUptime, now, restartTimestamps,
           backoffMs, child, childStartedAt, shuttingDown, state, file,
           writeFailures, spawnFailures, listeners, timerDue, timerDelay, streak, spawnCount,
           killLog, sigCount, exitHookCalls, lastHook, giveUpCalls,
           cleanupCalls, resolveCalls, ev, argv, execArgv, env, spawnArgs,
           spawnEnv, restartLog, readResult >>

Min(a, b) == IF a <= b THEN a ELSE b

\* variant: the write is dropped
WriteResultDropped(f, st, ok) == f

\* writeWatchdogState: the file takes the state when the write succeeds and
\* keeps its content when mkdirSync / writeFileSync throws (caught, logged).
WriteResult(f, st, ok) == IF ok THEN st ELSE f

\* number of failed writes among the given outcomes
Failed(oks) == Len(SelectSeq(oks, LAMBDA ok : ~ok))

\* variant: an `if` for the `while`: one head is dropped at most
PruneOnce(ts, t) ==
  IF Len(ts) > 0 /\ t - Head(ts) > RESTART_WINDOW_MS THEN Tail(ts) ELSE ts

\* variant: the pruning loop also drops a head as old as the window
RECURSIVE PruneInclusive(_, _)
PruneInclusive(ts, t) ==
  IF Len(ts) > 0 /\ t - Head(ts) >= RESTART_WINDOW_MS
    THEN PruneInclusive(Tail(ts), t)
    ELSE ts

\* isRateLimited, pruning loop: drop from the head while the head is older
\* than the window.
RECURSIVE Prune(_, _)
Prune(ts, t) ==
  IF Len(ts) > 0 /\ t - Head(ts) > RESTART_WINDOW_MS
    THEN Prune(Tail(ts), t)
    ELSE ts

\* variant: the crash under evaluation is counted with the retained restarts
RateLimitedEarly(ts, t, cap) == Len(Prune(ts, t)) + 1 >= cap

\* variant: strict comparison with the cap
RateLimitedLate(ts, t, cap) == Len(Prune(ts, t)) > cap

\* isRateLimited, returned value (after pruning)
RateLimited(ts, t, cap) == Len(Prune(ts, t)) >= cap

\* variant: strict comparison with the threshold
BackoffAfterUptimeStrict(b, uptime, threshold) ==
  IF uptime > threshold THEN INITIAL_BACKOFF_MS ELSE b

\* the reset of lines 198-201
BackoffAfterUptime(b, uptime, threshold) ==
  IF uptime >= threshold THEN INITIAL_BACKOFF_MS ELSE b

\* variant: doubling without the ceiling
DoubleBackoffUncapped(b) == b * 2

\* the doubling of line 234
DoubleBackoff(b) == Min(b * 2, MAX_BACKOFF_MS)

\* variant: only a shutdown request makes an exit clean
CleanExitIgnoresCode(sd, code) == sd

\* variant: only exit code 0 makes an exit clean
CleanExitIgnoresShutdown(sd, code) == code = 0

\* the test of line 186
CleanExit(sd, code) == sd \/ code = 0

\* variant: cleanup that always writes "stopped"
CleanupStateAlwaysStopped(st) == [st EXCEPT !.status = "stopped", !.childPid = Null]

\* cleanup(): status coerced to "stopped" unless "gave-up", childPid cleared
CleanupState(st) ==
  [st EXCEPT !.status = IF st.status # "gave-up" THEN "stopped" ELSE st.status,
             !.childPid = Null]

\* the state when startGatewayWatchdog is called with the given options
InitWith(sup, caps, thresholds) ==
  /\ pc = "idle"
  /\ supervised \in sup
  /\ maxRestarts \in caps
  /\ stableUptime \in thresholds
  /\ now = 0
  /\ restartTimestamps = << >>
  /\ backoffMs = INITIAL_BACKOFF_MS
  /\ child = NoChild
  /\ childStartedAt = Null
  /\ shuttingDown = FALSE
  /\ state = [pid |-> 1, childPid |-> Null, restarts |-> 0, lastCrashAt |-> Null,
              startedAt |-> Null, status |-> "absent"]
  /\ file = NoFile
  /\ writeFailures = 0
  /\ spawnFailures = 0
  /\ listeners = FALSE
  /\ timerDue = Null
  /\ timerDelay = Null
  /\ streak = 0
  /\ spawnCount = 0
  /\ killLog = << >>
  /\ sigCount = 0
  /\ exitHookCalls = 0
  /\ lastHook = [code |-> Null, signal |-> NoSignal]
  /\ giveUpCalls = 0
  /\ cleanupCalls = 0
  /\ resolveCalls = 0
  /\ ev = Event("init")
  /\ spawnArgs = << >>
  /\ spawnEnv = NoEnv
  /\ restartLog = << >>
  /\ readResult = NotRead

\* opts.argv, opts.execArgv and opts.env of the call
InitOptions(argvs, execArgvs, envs) ==
  /\ argv \in argvs
  /\ execArgv \in execArgvs
  /\ env \in envs

DefaultOptions == InitOptions({DefaultArgv}, {<< >>}, {DefaultEnv})

Init ==
  /\ InitWith(BOOLEAN, MaxRestartsChoices, StableUptimeChoices)
  /\ DefaultOptions

\* variant: only the first occurrence of the flag is removed
RECURSIVE buildChildArgvFirstOnly(_)
buildChildArgvFirstOnly(a) ==
  IF a = << >> THEN << >>
  ELSE IF Head(a) = WATCHDOG_FLAG THEN Tail(a)
  ELSE << Head(a) >> \o buildChildArgvFirstOnly(Tail(a))

\* buildChildArgv: argv.filter((arg) => arg !== "--watchdog")
buildChildArgv(a) == SelectSeq(a, LAMBDA arg : arg # WATCHDOG_FLAG)

\* variant: a value the variable already has is kept
ChildEnvKeepsExisting(e) ==
  [n \in DOMAIN e |->
     IF n = WATCHDOG_CHILD_ENV /\ e[n] = Unset THEN "1" ELSE e[n]]

\* spawnChild, line 149: { ...env, [WATCHDOG_CHILD_ENV]: "1" }
ChildEnv(e) == [n \in DOMAIN e |-> IF n = WATCHDOG_CHILD_ENV THEN "1" ELSE e[n]]

\* spawnChild + the two lines of runChild around it.  pidOk = FALSE is a
\* spawn whose handle has no pid (spawned.pid undefined).
RunChild(st, f, pidOk, wOk) ==
  LET pid == IF pidOk THEN 1000 + spawnCount + 1 ELSE Null
      st2 == [st EXCEPT !.childPid = pid, !.status = "running"]
  IN /\ child' = [id |-> spawnCount + 1, pid |-> pid, killed |-> FALSE,
                  exited |-> FALSE, errored |-> FALSE]
     /\ childStartedAt' = now
     /\ spawnCount' = spawnCount + 1
     /\ state' = st2
     /\ file' = WriteResult(f, st2, wOk)
     /\ spawnFailures' = spawnFailures + (IF pidOk THEN 0 ELSE 1)
     /\ spawnArgs' = execArgv \o buildChildArgv(argv)
     /\ spawnEnv' = ChildEnv(env)
     /\ pc' = "alive"

\* variant: the first state write is made before the entry guard
StartSupervisedWrites ==
  /\ pc = "idle"
  /\ supervised
  /\ pc' = "skipped"
  /\ state' = [state EXCEPT !.startedAt = now, !.status = "running"]
  /\ file' = state'
  /\ ev' = Event("start")
  /\ UNCHANGED << argv, execArgv, env, readResult, spawnArgs, spawnEnv, restartLog,
                  supervised, maxRestarts, stableUptime, now, restartTimestamps,
                  backoffMs, child, childStartedAt, shuttingDown,
                  writeFailures, spawnFailures, listeners, timerDue, timerDelay,
                  streak, spawnCount, killLog, sigCount, exitHookCalls, lastHook,
                  giveUpCalls, cleanupCalls, resolveCalls >>

\* startGatewayWatchdog, lines 85-91: the entry guard
StartSupervised ==
  /\ pc = "idle"
  /\ supervised
  /\ pc' = "skipped"
  /\ ev' = Event("start")
  /\ UNCHANGED << argv, execArgv, env, readResult, spawnArgs, spawnEnv, restartLog,
                  supervised, maxRestarts, stableUptime, now, restartTimestamps,
                  backoffMs, child, childStartedAt, shuttingDown, state, file,
                  writeFailures, spawnFailures, listeners, timerDue, timerDelay, streak,
                  spawnCount, killLog, sigCount, exitHookCalls, lastHook, giveUpCalls,
                  cleanupCalls, resolveCalls >>

\* startGatewayWatchdog, lines 93-129 and 178-239: initial state, first
\* write, listeners, first runChild (the promise executor runs synchronously)
Start(pidOk, wOk1, wOk2) ==
  /\ pc = "idle"
  /\ ~supervised
  /\ LET st0 == [pid |-> 1, childPid |-> Null, restarts |-> 0,
                 lastCrashAt |-> Null, startedAt |-> now, status |-> "running"]
     IN RunChild(st0, WriteResult(file, st0, wOk1), pidOk, wOk2)
  /\ writeFailures' = writeFailures + Failed(<< wOk1, wOk2 >>)
  /\ listeners' = TRUE
  /\ ev' = Event("start")
  /\ UNCHANGED << argv, execArgv, env, readResult, restartLog,
                  supervised, maxRestarts, stableUptime, now, restartTimestamps,
                  backoffMs, shuttingDown, timerDue, timerDelay, streak,
                  killLog, sigCount, exitHookCalls, lastHook, giveUpCalls, cleanupCalls,
                  resolveCalls >>

\* variant: opts.onChildExit is called after the clean branch has returned
ExitCleanHookSkipped(x, wOk) ==
  /\ pc = "alive"
  /\ CleanExit(shuttingDown, x.code)
  /\ child' = [child EXCEPT !.exited = TRUE]
  /\ state' = CleanupState(state)
  /\ file' = WriteResult(file, state', wOk)
  /\ writeFailures' = writeFailures + Failed(<< wOk >>)
  /\ listeners' = FALSE
  /\ cleanupCalls' = cleanupCalls + 1
  /\ resolveCalls' = resolveCalls + 1
  /\ pc' = "done"
  /\ ev' = ExitEvent(x)
  /\ UNCHANGED << argv, execArgv, env, readResult, spawnArgs, spawnEnv, restartLog,
                  spawnFailures, supervised, maxRestarts, stableUptime, now,
                  restartTimestamps, backoffMs, childStartedAt, shuttingDown,
                  timerDue, timerDelay, streak, spawnCount, killLog, sigCount,
                  exitHookCalls, lastHook, giveUpCalls >>

\* variant: the clean branch returns without resolve()
ExitCleanNoResolve(x, wOk) ==
  /\ pc = "alive"
  /\ CleanExit(shuttingDown, x.code)
  /\ exitHookCalls' = exitHookCalls + 1
  /\ lastHook' = [code |-> x.code, signal |-> x.signal]
  /\ child' = [child EXCEPT !.exited = TRUE]
  /\ state' = CleanupState(state)
  /\ file' = WriteResult(file, state', wOk)
  /\ writeFailures' = writeFailures + Failed(<< wOk >>)
  /\ listeners' = FALSE
  /\ cleanupCalls' = cleanupCalls + 1
  /\ pc' = "done"
  /\ ev' = ExitEvent(x)
  /\ UNCHANGED << argv, execArgv, env, readResult, spawnArgs, spawnEnv, restartLog,
                  spawnFailures, supervised, maxRestarts, stableUptime, now,
                  restartTimestamps, backoffMs, childStartedAt, shuttingDown,
                  timerDue, timerDelay, streak, spawnCount, killLog, sigCount,
                  giveUpCalls, resolveCalls >>

\* variant: cleanup() leaves the signal listeners registered
ExitCleanKeepsListeners(x, wOk) ==
  /\ pc = "alive"
  /\ CleanExit(shuttingDown, x.code)
  /\ exitHookCalls' = exitHookCalls + 1
  /\ lastHook' = [code |-> x.code, signal |-> x.signal]
  /\ child' = [child EXCEPT !.exited = TRUE]
  /\ state' = CleanupState(state)
  /\ file' = WriteResult(file, state', wOk)
  /\ writeFailures' = writeFailures + Failed(<< wOk >>)
  /\ listeners' = listeners
  /\ cleanupCalls' = cleanupCalls + 1
  /\ resolveCalls' = resolveCalls + 1
  /\ pc' = "done"
  /\ ev' = ExitEvent(x)
  /\ UNCHANGED << argv, execArgv, env, readResult, spawnArgs, spawnEnv, restartLog,
                  spawnFailures, supervised, maxRestarts, stableUptime, now, restartTimestamps,
                  backoffMs, childStartedAt, shuttingDown, timerDue, timerDelay,
                  streak, spawnCount, killLog, sigCount, giveUpCalls >>

\* the child 'exit' listener, lines 183-192: clean exit or exit under shutdown
ExitClean(x, wOk) ==
  /\ pc = "alive"
  /\ CleanExit(shuttingDown, x.code)
  /\ exitHookCalls' = exitHookCalls + 1
  /\ lastHook' = [code |-> x.code, signal |-> x.signal]
  /\ child' = [child EXCEPT !.exited = TRUE]
  /\ state' = CleanupState(state)
  /\ file' = WriteResult(file, state', wOk)
  /\ writeFailures' = writeFailures + Failed(<< wOk >>)
  /\ listeners' = FALSE
  /\ cleanupCalls' = cleanupCalls + 1
  /\ resolveCalls' = resolveCalls + 1
  /\ pc' = "done"
  /\ ev' = ExitEvent(x)
  /\ UNCHANGED << argv, execArgv, env, readResult, spawnArgs, spawnEnv, restartLog,
                  spawnFailures, supervised, maxRestarts, stableUptime, now, restartTimestamps,
                  backoffMs, childStartedAt, shuttingDown, timerDue, timerDelay,
                  streak, spawnCount, killLog, sigCount, giveUpCalls >>

\* the give-up branch with one of its statements left out or added:
\* callHook = FALSE leaves out opts.onGiveUp, stamp = FALSE leaves out the
\* assignment of lastCrashAt, bump = 1 adds state.restarts++
GiveUpVariant(x, wOk1, wOk2, callHook, stamp, bump) ==
  /\ pc = "alive"
  /\ ~CleanExit(shuttingDown, x.code)
  /\ RateLimited(restartTimestamps, now, maxRestarts)
  /\ exitHookCalls' = exitHookCalls + 1
  /\ lastHook' = [code |-> x.code, signal |-> x.signal]
  /\ child' = [child EXCEPT !.exited = TRUE]
  /\ backoffMs' = BackoffAfterUptime(backoffMs, now - childStartedAt, stableUptime)
  /\ restartTimestamps' = Prune(restartTimestamps, now)
  /\ LET st1 == [state EXCEPT !.lastCrashAt = IF stamp THEN now ELSE @,
                              !.restarts = @ + bump,
                              !.status = "gave-up", !.childPid = Null]
         f1 == WriteResult(file, st1, wOk1)
     IN /\ state' = CleanupState(st1)
        /\ file' = WriteResult(f1, state', wOk2)
  /\ writeFailures' = writeFailures + Failed(<< wOk1, wOk2 >>)
  /\ giveUpCalls' = giveUpCalls + (IF callHook THEN 1 ELSE 0)
  /\ listeners' = FALSE
  /\ cleanupCalls' = cleanupCalls + 1
  /\ resolveCalls' = resolveCalls + 1
  /\ pc' = "done"
  /\ ev' = ExitEvent(x)
  /\ UNCHANGED << argv, execArgv, env, readResult, spawnArgs, spawnEnv, restartLog,
                  spawnFailures, supervised, maxRestarts, stableUptime, now,
                  childStartedAt, shuttingDown, timerDue, timerDelay, streak,
                  spawnCount, killLog, sigCount >>

\* variant: opts.onGiveUp is not called
ExitGiveUpNoHook(x, wOk1, wOk2) == GiveUpVariant(x, wOk1, wOk2, FALSE, TRUE, 0)

\* variant: lastCrashAt is assigned after the rate check
ExitGiveUpNoCrashTime(x, wOk1, wOk2) == GiveUpVariant(x, wOk1, wOk2, TRUE, FALSE, 0)

\* variant: state.restarts++ comes before the rate check
ExitGiveUpCountsRestart(x, wOk1, wOk2) == GiveUpVariant(x, wOk1, wOk2, TRUE, TRUE, 1)

\* the child 'exit' listener, lines 194-215: crash rejected by the rate limiter
ExitGiveUp(x, wOk1, wOk2) ==
  /\ pc = "alive"
  /\ ~CleanExit(shuttingDown, x.code)
  /\ RateLimited(restartTimestamps, now, maxRestarts)
  /\ exitHookCalls' = exitHookCalls + 1
  /\ lastHook' = [code |-> x.code, signal |-> x.signal]
  /\ child' = [child EXCEPT !.exited = TRUE]
  /\ backoffMs' = BackoffAfterUptime(backoffMs, now - childStartedAt, stableUptime)
  /\ restartTimestamps' = Prune(restartTimestamps, now)
  /\ LET st1 == [state EXCEPT !.lastCrashAt = now, !.status = "gave-up",
                              !.childPid = Null]
         f1 == WriteResult(file, st1, wOk1)
     IN /\ state' = CleanupState(st1)
        /\ file' = WriteResult(f1, state', wOk2)
  /\ writeFailures' = writeFailures + Failed(<< wOk1, wOk2 >>)
  /\ giveUpCalls' = giveUpCalls + 1
  /\ listeners' = FALSE
  /\ cleanupCalls' = cleanupCalls + 1
  /\ resolveCalls' = resolveCalls + 1
  /\ pc' = "done"
  /\ ev' = ExitEvent(x)
  /\ UNCHANGED << argv, execArgv, env, readResult, spawnArgs, spawnEnv, restartLog,
                  spawnFailures, supervised, maxRestarts, stableUptime, now, childStartedAt,
                  shuttingDown, timerDue, timerDelay, streak, spawnCount,
                  killLog, sigCount >>

\* variant: a failing state write throws out of the listener, before setTimeout
ExitRestartWriteThrows(x, wOk) ==
  /\ pc = "alive"
  /\ ~CleanExit(shuttingDown, x.code)
  /\ ~RateLimited(restartTimestamps, now, maxRestarts)
  /\ exitHookCalls' = exitHookCalls + 1
  /\ lastHook' = [code |-> x.code, signal |-> x.signal]
  /\ child' = [child EXCEPT !.exited = TRUE]
  /\ LET uptime == now - childStartedAt
         b == BackoffAfterUptime(backoffMs, uptime, stableUptime)
     IN /\ timerDelay' = (IF wOk THEN b ELSE timerDelay)
        /\ timerDue' = (IF wOk THEN now + b ELSE timerDue)
        /\ backoffMs' = DoubleBackoff(b)
        /\ streak' = IF uptime >= stableUptime THEN 1 ELSE streak + 1
  /\ restartTimestamps' = Append(Prune(restartTimestamps, now), now)
  /\ restartLog' = Append(restartLog, now)
  /\ state' = [state EXCEPT !.lastCrashAt = now, !.restarts = @ + 1,
                            !.status = "restarting"]
  /\ file' = WriteResult(file, state', wOk)
  /\ writeFailures' = writeFailures + Failed(<< wOk >>)
  /\ pc' = "pending"
  /\ ev' = ExitEvent(x)
  /\ UNCHANGED << argv, execArgv, env, readResult, spawnArgs, spawnEnv,
                  spawnFailures, supervised, maxRestarts, stableUptime, now, childStartedAt,
                  shuttingDown, listeners, spawnCount, killLog, sigCount,
                  giveUpCalls, cleanupCalls, resolveCalls >>

\* the child 'exit' listener, lines 194-201 and 217-234: crash, restart scheduled
ExitRestart(x, wOk) ==
  /\ pc = "alive"
  /\ ~CleanExit(shuttingDown, x.code)
  /\ ~RateLimited(restartTimestamps, now, maxRestarts)
  /\ exitHookCalls' = exitHookCalls + 1
  /\ lastHook' = [code |-> x.code, signal |-> x.signal]
  /\ child' = [child EXCEPT !.exited = TRUE]
  /\ LET uptime == now - childStartedAt
         b == BackoffAfterUptime(backoffMs, uptime, stableUptime)
     IN /\ timerDelay' = b
        /\ timerDue' = now + b
        /\ backoffMs' = DoubleBackoff(b)
        /\ streak' = IF uptime >= stableUptime THEN 1 ELSE streak + 1
  /\ restartTimestamps' = Append(Prune(restartTimestamps, now), now)
  /\ restartLog' = Append(restartLog, now)
  /\ state' = [state EXCEPT !.lastCrashAt = now, !.restarts = @ + 1,
                            !.status = "restarting"]
  /\ file' = WriteResult(file, state', wOk)
  /\ writeFailures' = writeFailures + Failed(<< wOk >>)
  /\ pc' = "pending"
  /\ ev' = ExitEvent(x)
  /\ UNCHANGED << argv, execArgv, env, readResult, spawnArgs, spawnEnv,
                  spawnFailures, supervised, maxRestarts, stableUptime, now, childStartedAt,
                  shuttingDown, listeners, spawnCount, killLog, sigCount,
                  giveUpCalls, cleanupCalls, resolveCalls >>

\* variant: the 'error' listener ends the run
ChildErrorEndsRun ==
  /\ pc = "alive"
  /\ child.pid = Null
  /\ ~child.errored
  /\ child' = [child EXCEPT !.errored = TRUE, !.exited = TRUE]
  /\ state' = CleanupState(state)
  /\ file' = state'
  /\ listeners' = FALSE
  /\ cleanupCalls' = cleanupCalls + 1
  /\ resolveCalls' = resolveCalls + 1
  /\ pc' = "done"
  /\ ev' = Event("error")
  /\ UNCHANGED << argv, execArgv, env, readResult, spawnArgs, spawnEnv, restartLog,
                  supervised, maxRestarts, stableUptime, now,
                  restartTimestamps, backoffMs, childStartedAt, shuttingDown,
                  writeFailures, spawnFailures, timerDue, timerDelay,
                  streak, spawnCount, killLog, sigCount, exitHookCalls, lastHook,
                  giveUpCalls >>

\* the 'error' listener of spawnChild, lines 157-159: logs, nothing else
ChildError ==
  /\ pc = "alive"
  /\ child.pid = Null
  /\ ~child.errored
  /\ child' = [child EXCEPT !.errored = TRUE]
  /\ ev' = Event("error")
  /\ UNCHANGED << argv, execArgv, env, readResult, spawnArgs, spawnEnv, restartLog,
                  pc, supervised, maxRestarts, stableUptime, now,
                  restartTimestamps, backoffMs, childStartedAt, shuttingDown,
                  state, file, writeFailures, spawnFailures, listeners, timerDue, timerDelay,
                  streak, spawnCount, killLog, sigCount, exitHookCalls, lastHook,
                  giveUpCalls, cleanupCalls, resolveCalls >>

\* forwardSignal, lines 111-115.  child.kill delivers the signal and sets
\* child.killed when the handle is open and the kill succeeds (killOk); on a
\* handle whose child has exited it returns false and changes nothing.
ForwardSignal(c, sig, killOk) ==
  IF c # NoChild /\ ~c.killed
    THEN [child |-> [c EXCEPT !.killed = (~c.exited /\ killOk)],
          log |-> << [id |-> c.id, sig |-> sig, live |-> ~c.exited] >>]
    ELSE [child |-> c, log |-> << >>]

\* onSigterm / onSigint, lines 117-126
OnSignal(sig, killOk) ==
  /\ listeners
  /\ sigCount' = sigCount + 1
  /\ shuttingDown' = TRUE
  /\ LET r == ForwardSignal(child, sig, killOk)
     IN /\ child' = r.child
        /\ killLog' = killLog \o r.log
  /\ ev' = [type |-> "signal", code |-> Null, signal |-> sig]
  /\ UNCHANGED << argv, execArgv, env, readResult, spawnArgs, spawnEnv, restartLog,
                  pc, supervised, maxRestarts, stableUptime, now,
                  restartTimestamps, backoffMs, childStartedAt, state, file,
                  writeFailures, spawnFailures, listeners, timerDue, timerDelay, streak,
                  spawnCount, exitHookCalls, lastHook, giveUpCalls, cleanupCalls,
                  resolveCalls >>

\* a signal delivered after cleanup() has removed the listeners: no code of
\* the supervisor runs
SignalUnheard(sig) ==
  /\ pc = "done"
  /\ ~listeners
  /\ ev' = [type |-> "unheard", code |-> Null, signal |-> sig]
  /\ UNCHANGED << pc, supervised, maxRestarts, stableUptime, now,
                  restartTimestamps, backoffMs, child, childStartedAt,
                  shuttingDown, state, file, writeFailures, spawnFailures,
                  listeners, timerDue, timerDelay, streak, spawnCount, killLog,
                  sigCount, exitHookCalls, lastHook, giveUpCalls, cleanupCalls,
                  resolveCalls, argv, execArgv, env, spawnArgs, spawnEnv,
                  restartLog, readResult >>

\* variant: the timer callback resolves without cleanup()
TimerShutdownNoCleanup(wOk) ==
  /\ pc = "pending"
  /\ now >= timerDue
  /\ shuttingDown
  /\ resolveCalls' = resolveCalls + 1
  /\ timerDue' = Null
  /\ pc' = "done"
  /\ ev' = Event("timer")
  /\ UNCHANGED << argv, execArgv, env, readResult, spawnArgs, spawnEnv, restartLog,
                  spawnFailures, supervised, maxRestarts, stableUptime, now,
                  restartTimestamps, backoffMs, child, childStartedAt,
                  shuttingDown, state, file, writeFailures, listeners,
                  timerDelay, streak, spawnCount, killLog, sigCount,
                  exitHookCalls, lastHook, giveUpCalls, cleanupCalls >>

\* the setTimeout callback, lines 224-229: shutdown requested during the delay
TimerShutdown(wOk) ==
  /\ pc = "pending"
  /\ now >= timerDue
  /\ shuttingDown
  /\ state' = CleanupState(state)
  /\ file' = WriteResult(file, state', wOk)
  /\ writeFailures' = writeFailures + Failed(<< wOk >>)
  /\ listeners' = FALSE
  /\ cleanupCalls' = cleanupCalls + 1
  /\ resolveCalls' = resolveCalls + 1
  /\ timerDue' = Null
  /\ pc' = "done"
  /\ ev' = Event("timer")
  /\ UNCHANGED << argv, execArgv, env, readResult, spawnArgs, spawnEnv, restartLog,
                  spawnFailures, supervised, maxRestarts, stableUptime, now, restartTimestamps,
                  backoffMs, child, childStartedAt, shuttingDown, timerDelay,
                  streak, spawnCount, killLog, sigCount, exitHookCalls, lastHook,
                  giveUpCalls >>

\* variant: the timer callback re-spawns without looking at shuttingDown
TimerRespawnIgnoresShutdown(pidOk, wOk) ==
  /\ pc = "pending"
  /\ now >= timerDue
  /\ RunChild(state, file, pidOk, wOk)
  /\ writeFailures' = writeFailures + Failed(<< wOk >>)
  /\ timerDue' = Null
  /\ ev' = Event("timer")
  /\ UNCHANGED << argv, execArgv, env, readResult, restartLog,
                  supervised, maxRestarts, stableUptime, now, restartTimestamps,
                  backoffMs, shuttingDown, listeners, timerDelay, streak,
                  killLog, sigCount, exitHookCalls, lastHook, giveUpCalls, cleanupCalls,
                  resolveCalls >>

\* variant: the callback stays armed (an interval) and fires whether or not
\* the child it started is still alive
TimerRespawnRepeats(pidOk, wOk) ==
  /\ timerDue # Null
  /\ now >= timerDue
  /\ ~shuttingDown
  /\ RunChild(state, file, pidOk, wOk)
  /\ writeFailures' = writeFailures + Failed(<< wOk >>)
  /\ ev' = Event("timer")
  /\ UNCHANGED << argv, execArgv, env, readResult, restartLog,
                  supervised, maxRestarts, stableUptime, now, restartTimestamps,
                  backoffMs, shuttingDown, listeners, timerDue, timerDelay, streak,
                  killLog, sigCount, exitHookCalls, lastHook, giveUpCalls, cleanupCalls,
                  resolveCalls >>

\* the setTimeout callback, line 230: re-spawn
TimerRespawn(pidOk, wOk) ==
  /\ pc = "pending"
  /\ now >= timerDue
  /\ ~shuttingDown
  /\ RunChild(state, file, pidOk, wOk)
  /\ writeFailures' = writeFailures + Failed(<< wOk >>)
  /\ timerDue' = Null
  /\ ev' = Event("timer")
  /\ UNCHANGED << argv, execArgv, env, readResult, restartLog,
                  supervised, maxRestarts, stableUptime, now, restartTimestamps,
                  backoffMs, shuttingDown, listeners, timerDelay, streak,
                  killLog, sigCount, exitHookCalls, lastHook, giveUpCalls, cleanupCalls,
                  resolveCalls >>

\* time passing while a child runs or a restart is pending.  Only the 'exit'
\* listener and the timer callback read the clock, so the elapsed time of an
\* interval is taken once, right after the event that starts it.
Tick(d) ==
  /\ pc \in {"alive", "pending"}
  /\ ev.type \in {"start", "timer", "exit"}
  /\ d > 0
  /\ now' = now + d
  /\ ev' = Event("tick")
  /\ UNCHANGED << argv, execArgv, env, readResult, spawnArgs, spawnEnv, restartLog,
                  pc, supervised, maxRestarts, stableUptime, restartTimestamps,
                  backoffMs, child, childStartedAt, shuttingDown, state, file,
                  writeFailures, spawnFailures, listeners, timerDue, timerDelay, streak,
                  spawnCount, killLog, sigCount, exitHookCalls, lastHook, giveUpCalls,
                  cleanupCalls, resolveCalls >>

\* an observer (a status command, a health probe) reads the state file
ReadFile ==
  /\ readResult' = readWatchdogState(file)
  /\ UNCHANGED << pc, supervised, maxRestarts, stableUptime, now,
                  restartTimestamps, backoffMs, child, childStartedAt,
                  shuttingDown, state, file, writeFailures, spawnFailures,
                  listeners, timerDue, timerDelay, streak, spawnCount, killLog,
                  sigCount, exitHookCalls, lastHook, giveUpCalls, cleanupCalls,
                  resolveCalls, ev, argv, execArgv, env, spawnArgs, spawnEnv,
                  restartLog >>

\* the state file is removed (f = NoFile) or cut short (f = CorruptFile) from
\* outside the supervisor
FileDamaged(f) ==
  /\ f \in {NoFile, CorruptFile}
  /\ file # f
  /\ file' = f
  /\ UNCHANGED << pc, supervised, maxRestarts, stableUptime, now,
                  restartTimestamps, backoffMs, child, childStartedAt,
                  shuttingDown, state, writeFailures, spawnFailures,
                  listeners, timerDue, timerDelay, streak, spawnCount, killLog,
                  sigCount, exitHookCalls, lastHook, giveUpCalls, cleanupCalls,
                  resolveCalls, ev, argv, execArgv, env, spawnArgs, spawnEnv,
                  restartLog, readResult >>

\* time passing until the pending restart timer is due
TickToDue ==
  /\ pc = "pending"
  /\ Tick(timerDue - now)

\* ---- the run with every write succeeding and every spawn giving a pid ----
Next ==
  \/ StartSupervised
  \/ Start(TRUE, TRUE, TRUE)
  \/ \E x \in ExitInputs : ExitClean(x, TRUE)
  \/ \E x \in ExitInputs : ExitGiveUp(x, TRUE, TRUE)
  \/ \E x \in ExitInputs : ExitRestart(x, TRUE)
  \/ \E sig \in Signals, k \in BOOLEAN : sigCount < MaxSignals /\ OnSignal(sig, k)
  \/ TimerShutdown(TRUE)
  \/ spawnCount < MaxSpawns /\ TimerRespawn(TRUE, TRUE)
  \/ \E d \in UptimeSteps : pc = "alive" /\ Tick(d)
  \/ \E d \in DelaySteps : pc = "pending" /\ Tick(d)
  \/ TickToDue

Spec == Init /\ [][Next]_vars

\* ---- the same run, with signals that arrive after cleanup() ----
NextTerminal ==
  \/ Next
  \/ \E sig \in Signals : SignalUnheard(sig)

SpecTerminal == Init /\ [][NextTerminal]_vars

\* ---- the run with failing state-file writes and failing spawns ----
FaultBudget ==
  /\ writeFailures' <= MaxWriteFailures
  /\ spawnFailures' <= MaxSpawnFailures

NextFaults ==
  \/ StartSupervised
  \/ \E pidOk \in BOOLEAN, w1 \in BOOLEAN, w2 \in BOOLEAN :
       Start(pidOk, w1, w2) /\ FaultBudget
  \/ \E x \in ExitInputs, w \in BOOLEAN : ExitClean(x, w) /\ FaultBudget
  \/ \E x \in ExitInputs, w1 \in BOOLEAN, w2 \in BOOLEAN :
       ExitGiveUp(x, w1, w2) /\ FaultBudget
  \/ \E x \in ExitInputs, w \in BOOLEAN : ExitRestart(x, w) /\ FaultBudget
  \/ ChildError
  \/ \E sig \in Signals, k \in BOOLEAN : sigCount < MaxFaultSignals /\ OnSignal(sig, k)
  \/ \E w \in BOOLEAN : TimerShutdown(w) /\ FaultBudget
  \/ \E pidOk \in BOOLEAN, w \in BOOLEAN :
       spawnCount < MaxFaultSpawns /\ TimerRespawn(pidOk, w) /\ FaultBudget
  \/ \E d \in UptimeSteps : pc = "alive" /\ Tick(d)
  \/ \E d \in DelaySteps : pc = "pending" /\ Tick(d)
  \/ TickToDue

SpecFaults == Init /\ [][NextFaults]_vars

\* ---- long runs of crashes, to follow the backoff sequence: the cap of the
\* rate limiter is set high enough for MaxBackoffSpawns - 1 restarts ----
InitBackoff ==
  /\ InitWith({FALSE}, {MaxBackoffSpawns - 1}, StableUptimeChoices)
  /\ DefaultOptions

NextBackoffRun ==
  \/ Start(TRUE, TRUE, TRUE)
  \/ ExitClean([code |-> 0, signal |-> NoSignal], TRUE)
  \/ ExitGiveUp([code |-> 1, signal |-> NoSignal], TRUE, TRUE)
  \/ ExitRestart([code |-> 1, signal |-> NoSignal], TRUE)
  \/ spawnCount < MaxBackoffSpawns /\ TimerRespawn(TRUE, TRUE)
  \/ \E d \in UptimeSteps : pc = "alive" /\ Tick(d)
  \/ TickToDue

SpecBackoff == InitBackoff /\ [][NextBackoffRun]_vars

\* ---- a child that crashes as soon as it is started, every time, with the
\* restart timers firing when due and no shutdown request.  The event loop
\* runs every callback that is ready, hence the weak fairness. ----
CrashLoopCaps == {0, 1, MAX_RESTARTS_PER_HOUR, 64, 65}

InitCrashLoop ==
  /\ InitWith({FALSE}, CrashLoopCaps, {STABLE_UPTIME_RESET_MS})
  /\ DefaultOptions

NextCrashLoop ==
  \/ Start(TRUE, TRUE, TRUE)
  \/ ExitGiveUp([code |-> 1, signal |-> NoSignal], TRUE, TRUE)
  \/ ExitRestart([code |-> 1, signal |-> NoSignal], TRUE)
  \/ spawnCount < MaxLoopSpawns /\ TimerRespawn(TRUE, TRUE)
  \/ TickToDue

SpecCrashLoop == InitCrashLoop /\ [][NextCrashLoop]_vars /\ WF_vars(NextCrashLoop)

\* ---- runs over every argv, execArgv and env of the bounded choices: what
\* each spawn is given ----
InitSpawnArgs ==
  /\ InitWith({FALSE}, {1}, {STABLE_UPTIME_RESET_MS})
  /\ InitOptions(ArgvChoices, ExecArgvChoices, EnvChoices)

NextSpawnArgs ==
  \/ Start(TRUE, TRUE, TRUE)
  \/ ExitClean([code |-> 0, signal |-> NoSignal], TRUE)
  \/ ExitGiveUp([code |-> 1, signal |-> NoSignal], TRUE, TRUE)
  \/ ExitRestart([code |-> 1, signal |-> NoSignal], TRUE)
  \/ spawnCount < MaxSpawns /\ TimerRespawn(TRUE, TRUE)
  \/ TickToDue

SpecSpawnArgs == InitSpawnArgs /\ [][NextSpawnArgs]_vars

\* ---- runs with an observer reading the state file, and the file removed
\* or cut short from outside ----
InitStateFile ==
  /\ InitWith({FALSE}, {0, 1}, {STABLE_UPTIME_RESET_MS})
  /\ DefaultOptions

NextStateFile ==
  \/ Start(TRUE, TRUE, TRUE)
  \/ \E x \in ExitInputs : ExitClean(x, TRUE)
  \/ \E x \in ExitInputs : ExitGiveUp(x, TRUE, TRUE)
  \/ \E x \in ExitInputs : ExitRestart(x, TRUE)
  \/ \E sig \in Signals : sigCount < MaxSignals /\ OnSignal(sig, TRUE)
  \/ TimerShutdown(TRUE)
  \/ spawnCount < MaxSpawns /\ TimerRespawn(TRUE, TRUE)
  \/ TickToDue
  \/ ReadFile
  \/ \E f \in {NoFile, CorruptFile} : FileDamaged(f)

SpecStateFile == InitStateFile /\ [][NextStateFile]_vars

\* ---- the default configuration (maxRestartsPerHour and stableUptimeMs not
\* given), with restart timers that fire when due.  A child crashes at once,
\* just before or at the stability threshold, or after an hour. ----
DefaultUptimeSteps ==
  {STABLE_UPTIME_RESET_MS - 1, STABLE_UPTIME_RESET_MS, RESTART_WINDOW_MS}

InitDefaults ==
  /\ InitWith({FALSE}, {MAX_RESTARTS_PER_HOUR}, {STABLE_UPTIME_RESET_MS})
  /\ DefaultOptions

NextDefaults ==
  \/ Start(TRUE, TRUE, TRUE)
  \/ ExitClean([code |-> 0, signal |-> NoSignal], TRUE)
  \/ ExitGiveUp([code |-> 1, signal |-> NoSignal], TRUE, TRUE)
  \/ ExitRestart([code |-> 1, signal |-> NoSignal], TRUE)
  \/ spawnCount < MaxDefaultSpawns /\ TimerRespawn(TRUE, TRUE)
  \/ \E d \in DefaultUptimeSteps : pc = "alive" /\ Tick(d)
  \/ TickToDue

SpecDefaults == InitDefaults /\ [][NextDefaults]_vars

\* ======================= properties =======================

\* steps, recognised by what they count
ExitStep == exitHookCalls' = exitHookCalls + 1
CrashStep == ExitStep /\ ev'.code # 0 /\ ~shuttingDown
SignalStep == sigCount' = sigCount + 1
TimerStep == pc = "pending" /\ ev'.type = "timer"
SpawnStep == spawnCount' = spawnCount + 1

\* restart timestamps of ts that lie within the window that ends at t
Retained(ts, t) ==
  Cardinality({ i \in 1..Len(ts) : t - ts[i] <= RESTART_WINDOW_MS })

\* C1: a crash (non-zero or null exit code) with the shutdown flag unset and
\* fewer than maxRestarts retained restart timestamps sets status
\* 'restarting' and schedules a re-spawn; the timer firing with the shutdown
\* flag still unset spawns a new child.
C1_RestartOnCrash ==
  [][ /\ (CrashStep /\ Retained(restartTimestamps, now) < maxRestarts)
         => /\ state'.status = "restarting"
            /\ pc' = "pending"
            /\ timerDue' = now + timerDelay'
            /\ timerDue' # Null
      /\ (TimerStep /\ ~shuttingDown)
         => /\ SpawnStep
            /\ pc' = "alive"
            /\ ~child'.exited
            /\ child'.id = spawnCount'
            /\ state'.status = "running" ]_vars

C1_Witness ==
  /\ pc = "alive"
  /\ ev.type = "timer"
  /\ spawnCount = 2
  /\ state.restarts = 1
  /\ state.status = "running"

C5_CleanExitStops ==
  [][ /\ (ExitStep /\ ev'.code = 0)
         => /\ pc' = "done"
            /\ state'.status = "stopped"
            /\ state'.childPid = Null
            /\ state'.restarts = state.restarts
            /\ restartTimestamps' = restartTimestamps
            /\ timerDue' = Null
            /\ spawnCount' = spawnCount
            /\ (state.restarts = 0 => spawnCount' = 1)
      /\ pc = "done" => (pc' = "done" /\ spawnCount' = spawnCount) ]_vars

C5_Witness ==
  /\ pc = "done"
  /\ ev.type = "exit"
  /\ ev.code = 0
  /\ ~shuttingDown
  /\ state.status = "stopped"
  /\ state.restarts >= 1
  /\ Retained(restartTimestamps, now) >= maxRestarts

\* C6: the shutdown flag, once set, stays set, and the next child exit is
\* clean whatever its code or signal: status 'stopped', restarts,
\* lastCrashAt, rate-limiter window and backoff unchanged, no timer, no
\* give-up hook.
C6_ExitUnderShutdown ==
  [][ /\ shuttingDown => shuttingDown'
      /\ (SignalStep /\ ev'.signal \in Signals) => shuttingDown'
      /\ (ExitStep /\ shuttingDown)
         => /\ pc' = "done"
            /\ state'.status = "stopped"
            /\ state'.restarts = state.restarts
            /\ state'.lastCrashAt = state.lastCrashAt
            /\ restartTimestamps' = restartTimestamps
            /\ backoffMs' = backoffMs
            /\ timerDue' = Null
            /\ giveUpCalls' = giveUpCalls ]_vars

C6_Witness ==
  /\ pc = "done"
  /\ shuttingDown
  /\ ev.type = "exit"
  /\ ev.code # 0
  /\ state.status = "stopped"
  /\ maxRestarts >= 1
  /\ Retained(restartTimestamps, now) >= maxRestarts
  /\ giveUpCalls = 0

\* C7 as stated: a shutdown request that arrives while a restart is pending
\* finalizes the run at once (status 'stopped'), and no child is spawned
\* once the shutdown flag is set.
C7_Original ==
  [][ /\ shuttingDown => ~SpawnStep
      /\ (SignalStep /\ pc = "pending")
         => (pc' = "done" /\ state'.status = "stopped") ]_vars

\* C7 amended: no child is spawned once the shutdown flag is set; a shutdown
\* request that arrives while a restart is pending leaves the run pending,
\* and the run finalizes as a clean stop (status 'stopped', cleanup run) in
\* the timer callback, which fires no earlier than the scheduled delay.
C7_ShutdownWhilePending ==
  [][ /\ shuttingDown => ~SpawnStep
      /\ (SignalStep /\ pc = "pending")
         => (pc' = "pending" /\ timerDue' = timerDue /\ state' = state)
      /\ (TimerStep /\ shuttingDown)
         => /\ pc' = "done"
            /\ state'.status = "stopped"
            /\ cleanupCalls' = cleanupCalls + 1
            /\ resolveCalls' = resolveCalls + 1
            /\ now' >= timerDue ]_vars

C7_Witness ==
  /\ pc = "done"
  /\ ev.type = "timer"
  /\ shuttingDown
  /\ state.status = "stopped"
  /\ state.restarts = spawnCount
  /\ cleanupCalls = 1

\* C8 as stated: every SIGTERM or SIGINT delivered while a child is alive
\* sets the shutdown flag and makes one kill call with that signal on the
\* live child.
C8_ForwardEverySignal ==
  [][ (SignalStep /\ pc = "alive")
      => /\ shuttingDown'
         /\ killLog' = Append(killLog, [id |-> child.id, sig |-> ev'.signal,
                                        live |-> TRUE]) ]_vars

\* the delay of the k-th crash since the backoff was last at its initial value
ExpectedDelay(k) ==
  CASE k = 1 -> 1000
    [] k = 2 -> 2000
    [] k = 3 -> 4000
    [] k = 4 -> 8000
    [] k = 5 -> 16000
    [] k = 6 -> 32000
    [] OTHER -> 60000

\* C9: the delays of consecutive unstable crashes are 1000, 2000, 4000,
\* 8000, 16000, 32000, then 60000; the delay of a crash is the backoff value
\* held when it happens, and the doubling min(2 x value, 60000) follows.
C9_BackoffSequence ==
  [][ /\ (streak' >= 1 => timerDelay' = ExpectedDelay(streak'))
      /\ (pc' = "pending" => backoffMs' = ExpectedDelay(streak' + 1))
      /\ (CrashStep /\ pc' = "pending" /\ now - childStartedAt < stableUptime)
         => /\ timerDelay' = backoffMs
            /\ timerDue' = now + backoffMs
            /\ backoffMs' = Min(2 * backoffMs, 60000)
            /\ streak' = streak + 1 ]_vars

C9_Witness ==
  /\ pc = "pending"
  /\ streak = 8
  /\ timerDelay = 60000
  /\ backoffMs = 60000
  /\ state.restarts = 8

\* C10: a crash after an uptime at or above the stability threshold is
\* restarted with a delay of 1000 ms whatever the backoff was, and the
\* unstable crash that follows with 2000 ms.
C10_StableReset ==
  [][ /\ (CrashStep /\ pc' = "pending" /\ now - childStartedAt >= stableUptime)
         => /\ timerDelay' = 1000
            /\ timerDue' = now + 1000
            /\ streak' = 1
      /\ (CrashStep /\ pc' = "pending" /\ streak = 1
            /\ now - childStartedAt < stableUptime)
         => timerDelay' = 2000 ]_vars

C10_Witness ==
  /\ pc = "pending"
  /\ streak = 2
  /\ timerDelay = 2000
  /\ state.restarts >= 5
  /\ now - childStartedAt < stableUptime

\* the restart timestamps of ts that are not older than the window at time t
Kept(ts, t) == SelectSeq(ts, LAMBDA x : t - x <= RESTART_WINDOW_MS)

\* C11: on a crash the rate check drops every timestamp older than the
\* window (age > RESTART_WINDOW_MS) and keeps the others; it gives up
\* exactly when maxRestarts or more are kept, and the time of the crash is
\* appended only when the restart is allowed.
C11_CheckThenAppend ==
  [][ CrashStep =>
        IF Len(Kept(restartTimestamps, now)) >= maxRestarts
          THEN /\ state'.status = "gave-up"
               /\ giveUpCalls' = giveUpCalls + 1
               /\ restartTimestamps' = Kept(restartTimestamps, now)
          ELSE /\ state'.status = "restarting"
               /\ giveUpCalls' = giveUpCalls
               /\ restartTimestamps' = Append(Kept(restartTimestamps, now), now) ]_vars

C11_Witness ==
  /\ pc = "pending"
  /\ ev.type = "exit"
  /\ Len(restartTimestamps) = 2
  /\ state.restarts = 3
  /\ now - restartTimestamps[1] = RESTART_WINDOW_MS
  /\ restartTimestamps[2] = now

\* C12: cleanup has run exactly once when the run has ended and not at all
\* before; after it the listeners are removed, the status is 'stopped' or
\* 'gave-up', childPid is null and the state is persisted.
C12_CleanupOnce ==
  /\ cleanupCalls = (IF pc = "done" THEN 1 ELSE 0)
  /\ pc = "done"
     => /\ ~listeners
        /\ state.status \in {"stopped", "gave-up"}
        /\ (state.status = "gave-up") = (giveUpCalls = 1)
        /\ state.childPid = Null
        /\ file = state
  /\ pc \in {"alive", "pending"} => listeners

C12_Witness ==
  /\ pc = "done"
  /\ cleanupCalls = 1
  /\ ev.type = "exit"
  /\ ev.code # 0
  /\ shuttingDown
  /\ state.restarts >= 1
  /\ ~listeners

\* C13: the promise is resolved exactly once, in the step that runs the
\* cleanup, and never while a child is alive or a restart is pending.
C13_ResolveOnce ==
  [][ /\ resolveCalls' = (IF pc' = "done" THEN 1 ELSE 0)
      /\ resolveCalls' # resolveCalls
         => /\ resolveCalls' = resolveCalls + 1
            /\ cleanupCalls' = cleanupCalls + 1
            /\ child'.exited
            /\ timerDue' = Null
      /\ (pc' = "pending" /\ ~shuttingDown') => resolveCalls' = 0 ]_vars

C13_Witness ==
  /\ pc = "done"
  /\ resolveCalls = 1
  /\ cleanupCalls = 1
  /\ ev.type = "exit"
  /\ ev.code = 0
  /\ spawnCount = 2

\* C14: a run started in a supervised environment completes at once and
\* changes nothing: no state file, no child, no listener, no hook call.
C14_SupervisedSkips ==
  supervised
  => /\ pc \in {"idle", "skipped"}
     /\ file = NoFile
     /\ state.status = "absent"
     /\ child = NoChild
     /\ spawnCount = 0
     /\ ~listeners
     /\ exitHookCalls = 0
     /\ giveUpCalls = 0
     /\ cleanupCalls = 0
     /\ killLog = << >>
     /\ timerDue = Null

C14_Witness ==
  /\ pc = "skipped"
  /\ supervised
  /\ ev.type = "start"
  /\ file = NoFile

\* C15: the give-up hook is called once by the crash that the rate limiter
\* rejects and by nothing else; a run that ended 'stopped' never called it;
\* once it is called the run is over and no restart timer is left.
C15_GiveUpHookOnce ==
  [][ /\ giveUpCalls' =
           giveUpCalls + (IF CrashStep /\ Retained(restartTimestamps, now) >= maxRestarts
                            THEN 1 ELSE 0)
      /\ giveUpCalls' <= 1
      /\ (pc' = "done" /\ state'.status = "stopped") => giveUpCalls' = 0
      /\ giveUpCalls' = 1
         => /\ pc' = "done"
            /\ timerDue' = Null
            /\ state'.status = "gave-up" ]_vars

C15_Witness ==
  /\ giveUpCalls = 1
  /\ pc = "done"
  /\ state.restarts = maxRestarts
  /\ maxRestarts >= 1
  /\ timerDue = Null

\* a child's 'exit' event is delivered: the handle goes from running to exited
ChildExits == ~child.exited /\ child'.exited

C17_RestartsCounter ==
  [][ /\ state'.restarts =
           state.restarts + (IF CrashStep /\ Retained(restartTimestamps, now) < maxRestarts
                               THEN 1 ELSE 0)
      /\ (pc = "idle" /\ pc' = "alive") => (state'.restarts = 0 /\ file'.restarts = 0)
      /\ (ExitStep /\ ev'.code = 0 /\ spawnCount = 2 /\ ~shuttingDown)
         => (state'.restarts = 1 /\ file'.restarts = 1) ]_vars

C17_Witness ==
  /\ pc = "done"
  /\ ev.type = "exit"
  /\ ev.code = 0
  /\ exitHookCalls = 2
  /\ file.restarts = 1
  /\ file.status = "stopped"

\* C18 as stated: childPid is absent, in memory and in the state file,
\* whenever no child is running (restart pending or run ended).
C18_ChildPidAbsent ==
  pc \in {"pending", "done"}
  => (state.childPid = Null /\ file.childPid = Null)

\* C19: lastCrashAt takes the current time on every crash, the one that
\* gives up included, and is left alone by every other step: an exit with
\* code 0, an exit under shutdown, a signal, the timer.
C19_LastCrashAt ==
  [][ /\ CrashStep => (state'.lastCrashAt = now /\ file'.lastCrashAt = now)
      /\ ~CrashStep => state'.lastCrashAt = state.lastCrashAt
      /\ (ExitStep /\ (ev'.code = 0 \/ shuttingDown))
         => state'.lastCrashAt = state.lastCrashAt ]_vars

C19_Witness ==
  /\ state.status = "gave-up"
  /\ state.restarts >= 1
  /\ state.lastCrashAt = now
  /\ state.lastCrashAt > restartTimestamps[Len(restartTimestamps)]

\* the sum of the first n backoff delays of a run of unstable crashes
RECURSIVE DelaySum(_)
DelaySum(n) == IF n = 0 THEN 0 ELSE DelaySum(n - 1) + ExpectedDelay(n)

\* C20 as stated, for any maxRestartsPerHour, in the form a finite run
\* refutes: a crash loop that has lasted longer than one window and one
\* maximal delay has given up (if it has not by then, the restarts are
\* MAX_BACKOFF_MS apart and the window never holds more of them).
C20_Original ==
  now > RESTART_WINDOW_MS + MAX_BACKOFF_MS => state.status = "gave-up"

\* C20 amended: a child that crashes at once every time drives the
\* supervisor to 'gave-up', after exactly maxRestarts restarts, when the
\* first maxRestarts backoff delays fit in one window; with a larger cap it
\* does not give up.
C20_CrashLoopGivesUp ==
  /\ DelaySum(maxRestarts) <= RESTART_WINDOW_MS
     => /\ <>(state.status = "gave-up" /\ state.restarts = maxRestarts)
        /\ [](state.restarts <= maxRestarts)
  /\ DelaySum(maxRestarts) > RESTART_WINDOW_MS
     => [](state.status # "gave-up")

C20_Witness ==
  /\ state.status = "gave-up"
  /\ maxRestarts = 64
  /\ state.restarts = 64
  /\ backoffMs = MAX_BACKOFF_MS
  /\ now - restartTimestamps[1] <= RESTART_WINDOW_MS

\* the positions of a that do not hold the flag, and the i-th of them
KeptPositions(a) == {i \in DOMAIN a : a[i] # WATCHDOG_FLAG}
NthKept(a, j) ==
  CHOOSE i \in KeptPositions(a) : Cardinality({k \in KeptPositions(a) : k < i}) = j - 1

\* C21: buildChildArgv removes every element equal to '--watchdog' and keeps
\* every other element in its order: the result never holds the flag, an
\* argv without the flag (the empty one too) is returned as it is, filtering
\* twice gives what filtering once gives, and every spawn is given the
\* filtered argv after execArgv.
C21_ArgvFiltered ==
  LET out == buildChildArgv(argv)
  IN /\ \A i \in DOMAIN out : out[i] # WATCHDOG_FLAG
     /\ Len(out) = Cardinality(KeptPositions(argv))
     /\ \A j \in DOMAIN out : out[j] = argv[NthKept(argv, j)]
     /\ (KeptPositions(argv) = DOMAIN argv => out = argv)
     /\ buildChildArgv(out) = out
     /\ (spawnCount >= 1 => spawnArgs = execArgv \o out)

\* a re-spawn whose argv held the flag twice, around another argument
C21_Witness ==
  /\ spawnCount >= 2
  /\ argv = << WATCHDOG_FLAG, "--watchdog=1", WATCHDOG_FLAG >>
  /\ execArgv = << >>
  /\ spawnArgs = << "--watchdog=1" >>

\* C22: every spawn, the first one and every re-spawn, is given the
\* environment of the supervisor with OPENCLAW_WATCHDOG_CHILD set to "1",
\* whatever value the variable had, and every other variable as it was.
C22_ChildEnvMarked ==
  [][SpawnStep =>
       /\ spawnEnv'[WATCHDOG_CHILD_ENV] = "1"
       /\ \A n \in EnvNames \ {WATCHDOG_CHILD_ENV} : spawnEnv'[n] = env[n]]_vars

\* a re-spawn under an environment that had the variable set to "0"
C22_Witness ==
  /\ spawnCount >= 2
  /\ env[WATCHDOG_CHILD_ENV] = "0"
  /\ env["PATH"] = "0"
  /\ spawnEnv[WATCHDOG_CHILD_ENV] = "1"
  /\ spawnEnv["PATH"] = "0"

\* C23: readWatchdogState returns null (the exception of readFileSync or
\* JSON.parse is caught) when the state file is missing or its content cannot
\* be parsed; when the file holds a state that was written, it returns a
\* state equal to the one written, which is the state in memory as long as
\* the file is left alone.
C23_ReadState ==
  /\ \/ readResult \in {NotRead, NullState}
     \/ readResult.status \in {"running", "restarting", "gave-up", "stopped"}
  /\ (file \in {NoFile, CorruptFile} => readWatchdogState(file) = NullState)
  /\ (file \notin {NoFile, CorruptFile} => readWatchdogState(file) = file)
  /\ (file \notin {NoFile, CorruptFile} /\ pc # "idle" => readWatchdogState(file) = state)

\* the state of a run that gave up, read back with its null childPid and
\* its crash time
C23_Witness ==
  /\ pc = "done"
  /\ state.status = "gave-up"
  /\ state.childPid = Null
  /\ state.lastCrashAt # Null
  /\ state.restarts = 1
  /\ readResult = state

\* a handler has run: the start, the 'exit' listener or the timer callback
HandlerStep == ev' # ev /\ ev'.type \in {"start", "exit", "timer"} /\ ~supervised

\* what a handler does to spawns, hooks, state in memory, delay and
\* completion, given the event and the memory it starts from
HandlerEffect ==
  LET uptime == now - childStartedAt
      delay == IF uptime >= stableUptime THEN INITIAL_BACKOFF_MS ELSE backoffMs
      clean == shuttingDown \/ ev'.code = 0
      limited == Len(Kept(restartTimestamps, now)) >= maxRestarts
      stopped == [state EXCEPT !.childPid = Null, !.status = "stopped"]
  IN CASE ev'.type = "start" ->
            /\ pc' = "alive" /\ spawnCount' = 1 /\ listeners'
            /\ state' = [pid |-> 1, childPid |-> child'.pid, restarts |-> 0,
                         lastCrashAt |-> Null, startedAt |-> now,
                         status |-> "running"]
            /\ resolveCalls' = 0 /\ exitHookCalls' = 0 /\ giveUpCalls' = 0
       [] ev'.type = "exit" /\ clean ->
            /\ pc' = "done" /\ spawnCount' = spawnCount /\ ~listeners'
            /\ state' = stopped
            /\ exitHookCalls' = exitHookCalls + 1 /\ giveUpCalls' = giveUpCalls
            /\ cleanupCalls' = cleanupCalls + 1 /\ resolveCalls' = resolveCalls + 1
       [] ev'.type = "exit" /\ ~clean /\ limited ->
            /\ pc' = "done" /\ spawnCount' = spawnCount /\ ~listeners'
            /\ state' = [state EXCEPT !.lastCrashAt = now, !.childPid = Null,
                                      !.status = "gave-up"]
            /\ exitHookCalls' = exitHookCalls + 1 /\ giveUpCalls' = giveUpCalls + 1
            /\ cleanupCalls' = cleanupCalls + 1 /\ resolveCalls' = resolveCalls + 1
       [] ev'.type = "exit" /\ ~clean /\ ~limited ->
            /\ pc' = "pending" /\ spawnCount' = spawnCount /\ listeners'
            /\ state' = [state EXCEPT !.lastCrashAt = now, !.restarts = @ + 1,
                                      !.status = "restarting"]
            /\ timerDelay' = delay /\ timerDue' = now + delay
            /\ restartTimestamps' = Append(Kept(restartTimestamps, now), now)
            /\ exitHookCalls' = exitHookCalls + 1 /\ giveUpCalls' = giveUpCalls
            /\ cleanupCalls' = cleanupCalls /\ resolveCalls' = resolveCalls
       [] ev'.type = "timer" /\ shuttingDown ->
            /\ pc' = "done" /\ spawnCount' = spawnCount /\ ~listeners'
            /\ state' = stopped
            /\ exitHookCalls' = exitHookCalls /\ giveUpCalls' = giveUpCalls
            /\ cleanupCalls' = cleanupCalls + 1 /\ resolveCalls' = resolveCalls + 1
       [] ev'.type = "timer" /\ ~shuttingDown ->
            /\ pc' = "alive" /\ spawnCount' = spawnCount + 1 /\ listeners'
            /\ state' = [state EXCEPT !.childPid = child'.pid, !.status = "running"]
            /\ exitHookCalls' = exitHookCalls /\ giveUpCalls' = giveUpCalls
            /\ cleanupCalls' = cleanupCalls /\ resolveCalls' = resolveCalls

\* C24: a failing state-file write is not thrown and changes nothing but the
\* file: whichever of its writes fail, a handler spawns, calls the hooks,
\* changes the state in memory, sets the delay and completes the run as it
\* does when every write succeeds.
C24_WriteFailuresHarmless ==
  [][HandlerStep =>
       /\ HandlerEffect
       /\ (writeFailures' = writeFailures => file' = state')]_vars

\* a restart scheduled by a listener whose state write failed: the file
\* still says 'running'
C24_Witness ==
  /\ writeFailures >= 1
  /\ pc = "pending"
  /\ state.status = "restarting"
  /\ file # NoFile
  /\ file.status = "running"
  /\ timerDue = now + timerDelay

\* C25: at most one child is alive at any time: every child spawned but the
\* last has had its exit handled, and a child is spawned only by the start
\* or by the restart timer of a child whose exit has been handled.
C25_OneChild ==
  [][/\ spawnCount' - exitHookCalls' \in {0, 1}
     /\ (SpawnStep =>
           /\ spawnCount = exitHookCalls
           /\ \/ pc = "idle" /\ child = NoChild
              \/ TimerStep /\ child.exited /\ timerDue # Null /\ now >= timerDue)]_vars

\* the third child alive, the two before it gone
C25_Witness ==
  /\ spawnCount = 3
  /\ exitHookCalls = 2
  /\ pc = "alive"
  /\ ~child.exited
  /\ child.id = 3

\* C26: a signal received during the restart delay, when no child is alive,
\* sets the shutdown flag and makes no kill call on any child handle.
C26_NoKillWithoutChild ==
  [][SignalStep /\ pc = "pending" => shuttingDown' /\ killLog' = killLog]_vars

\* every timestamp of ts is within the window that ends at t
WithinWindow(ts, t) == \A i \in DOMAIN ts : t - ts[i] <= RESTART_WINDOW_MS

\* C27 as stated: in every reachable state the sequence of the rate limiter
\* holds only timestamps within the hour that ends at the current time.
C27_Original == WithinWindow(restartTimestamps, now)

\* C27: the sequence of the rate limiter holds only timestamps within the
\* hour that ends at the current time right after every rate check (every
\* crash handled); no other step changes the sequence, so older entries stay
\* in it until the next crash is handled.
C27_PrunedAtCheck ==
  [][/\ (CrashStep => WithinWindow(restartTimestamps', now))
     /\ (~CrashStep => restartTimestamps' = restartTimestamps)]_vars

\* a crash has just been handled and a restart older than the window is gone
\* from the sequence
C27_Witness ==
  /\ ev.type = "exit"
  /\ ev.code # 0
  /\ Len(restartLog) >= 2
  /\ now - restartLog[1] > RESTART_WINDOW_MS
  /\ Len(restartTimestamps) < Len(restartLog)
  /\ WithinWindow(restartTimestamps, now)

\* C28: 'stopped' and 'gave-up' are terminal: once cleanup() has run, the
\* listeners are removed and no timer or live child remains, and nothing
\* that happens later (a signal) changes the state, the file or the shutdown
\* flag, spawns, calls kill or calls a hook.
C28_Terminal ==
  [][cleanupCalls >= 1 =>
       /\ state.status \in {"stopped", "gave-up"}
       /\ ~listeners /\ timerDue = Null /\ child.exited
       /\ UNCHANGED << pc, state, file, shuttingDown, spawnCount, killLog, child,
                       exitHookCalls, giveUpCalls, cleanupCalls, resolveCalls,
                       timerDue, listeners >>]_vars

\* a signal delivered after the run gave up
C28_Witness ==
  /\ cleanupCalls = 1
  /\ ev.type = "unheard"
  /\ state.status = "gave-up"
  /\ state.restarts >= 1
  /\ ~shuttingDown
  /\ killLog = << >>

\* C29: a child 'error' event ends nothing and changes nothing of the run: no
\* state, file, timer, spawn, kill, hook or completion.  While a child is
\* held, only its 'exit' event moves the run on; as long as none arrives
\* the run stays at status 'running', unresolved.
C29_ErrorIsInert ==
  [][/\ (ev'.type = "error" =>
           UNCHANGED << pc, state, file, shuttingDown, restartTimestamps,
                        backoffMs, timerDue, timerDelay, spawnCount, killLog,
                        exitHookCalls, giveUpCalls, cleanupCalls, resolveCalls,
                        listeners, childStartedAt, now >>)
     /\ (pc = "alive" /\ ~ChildExits =>
           /\ pc' = "alive" /\ state' = state /\ state.status = "running"
           /\ resolveCalls' = 0 /\ spawnCount' = spawnCount)]_vars

\* a re-spawn that gave no pid, its 'error' event handled, the run still
\* 'running'
C29_Witness ==
  /\ pc = "alive"
  /\ child.errored
  /\ ~child.exited
  /\ child.pid = Null
  /\ spawnCount = 2
  /\ ev.type = "error"
  /\ state.status = "running"
  /\ state.childPid = Null
  /\ resolveCalls = 0

\* the restarts scheduled at a time of the closed interval [t - window, t]
RestartsWithin(t) ==
  {i \in DOMAIN restartLog :
     t - RESTART_WINDOW_MS <= restartLog[i] /\ restartLog[i] <= t}

\* the times t at which the number of restarts in [t - window, t] can reach
\* its maximum: a window that ends, or one that begins, at a restart
WindowEnds ==
  {restartLog[i] : i \in DOMAIN restartLog}
    \cup {restartLog[i] + RESTART_WINDOW_MS : i \in DOMAIN restartLog}

\* C30: with a clock that never goes back, no closed interval of one hour
\* holds more than maxRestarts scheduled restarts; the sequence of the rate
\* limiter is sorted, non-decreasing, and never longer than maxRestarts; with
\* maxRestarts = 0 the first crash gives up and no restart is ever scheduled.
C30_WindowCap ==
  /\ \A t \in WindowEnds : Cardinality(RestartsWithin(t)) <= maxRestarts
  /\ \A i \in DOMAIN restartTimestamps : \A j \in DOMAIN restartTimestamps :
        i <= j => restartTimestamps[i] <= restartTimestamps[j]
  /\ Len(restartTimestamps) <= maxRestarts
  /\ (maxRestarts = 0 =>
        /\ restartLog = << >>
        /\ (state.lastCrashAt # Null => state.status = "gave-up" /\ pc = "done"))

\* three restarts under a cap of two: the third is scheduled exactly one
\* hour after the second, the first having left the window
C30_Witness ==
  /\ maxRestarts = 2
  /\ Len(restartLog) = 3
  /\ restartLog[3] - restartLog[2] = RESTART_WINDOW_MS
  /\ restartLog[3] - restartLog[1] > RESTART_WINDOW_MS
  /\ restartTimestamps = << restartLog[2], restartLog[3] >>

\* C31: under the default configuration, with restart timers that fire when
\* due, no restart is delayed by more than 16000 ms: the sixth crash in a row
\* of a child that did not reach the stability threshold is rejected by the
\* rate limiter, so the delays of 32000 ms and 60000 ms are never used; the
\* stored backoff stays within 1000..60000 ms.
C31_DelayAtMost16000 ==
  [][/\ timerDelay' <= 16000
     /\ INITIAL_BACKOFF_MS <= backoffMs' /\ backoffMs' <= MAX_BACKOFF_MS
     /\ (CrashStep /\ streak >= 5 /\ now - childStartedAt < stableUptime =>
           /\ state'.status = "gave-up" /\ pc' = "done"
           /\ timerDelay' = timerDelay)]_vars

\* the sixth crash in a row rejected, the fifth restart having waited 16000
\* ms and the stored backoff being 32000 ms
C31_Witness ==
  /\ pc = "done"
  /\ state.status = "gave-up"
  /\ streak = 5
  /\ timerDelay = 16000
  /\ backoffMs = 32000
  /\ spawnCount = MaxDefaultSpawns

\* C32: in a run that passed the entry guard, the number of children spawned
\* is restarts + 1 while a child is alive and restarts while a restart is
\* pending; at the end of the run it is restarts + 1, or restarts when the
\* run ended in the timer callback, a shutdown request having cancelled the
\* pending restart.
C32_SpawnsAndRestarts ==
  /\ (pc = "alive" => spawnCount = state.restarts + 1)
  /\ (pc = "pending" => spawnCount = state.restarts)
  /\ (pc = "done" =>
        /\ (ev.type = "timer" =>
              shuttingDown /\ state.status = "stopped" /\ state.restarts >= 1)
        /\ spawnCount = state.restarts + (IF ev.type = "timer" THEN 0 ELSE 1))

\* a run ended by the timer callback after two restarts were scheduled and
\* one of them made
C32_Witness ==
  /\ pc = "done"
  /\ ev.type = "timer"
  /\ shuttingDown
  /\ spawnCount = 2
  /\ state.restarts = 2
====
